---- MODULE Spec2Model ----
(***************************************************************************)
(* A model of docling's HTML backend (docling/backend/html_backend.py):    *)
(*   - _get_cell_spans, the span extraction of one table cell;             *)
(*   - parse_table_data, the two passes of the table grid reconstruction;  *)
(*   - convert / walk / the tag handlers, with the hierarchy stack         *)
(*     (level, parents), the list context and the content layer.           *)
(*                                                                         *)
(* A Python str is a sequence of one-character strings.  An element tree   *)
(* is the sequence of its elements in document order, each with its depth. *)
(***************************************************************************)
EXTENDS Integers, Sequences, FiniteSets

VARIABLES
    \* _get_cell_spans called on one cell
    cell,            \* the cell tag: its name and its colspan / rowspan attributes
    int_spans,       \* the pair returned, <<col_span, row_span>>
    spc,             \* "call" | "returned" | "raised" (ValueError) | "off"
    \* parse_table_data called on one table element
    element,         \* the table: a sequence of rows, each a sequence of cells
    tpc,             \* "size" | "rows" | "cells" | "done" | "raised" | "off"
    exc,             \* the exception that ended the call ("" if none)
    num_rows, num_cols,
    grid,            \* the occupied slots of the grid, as <<row, col>> pairs
    row_idx, start_row_span, col_idx,
    col_header, row_header,
    ri, ci,          \* the row / cell the loops are at
    table_cells,     \* data.table_cells
    \* one HTMLDocumentBackend object
    soup,            \* the children of the content, in document order
    pc,              \* "init" | "walk" | "done" | "raised" | "off"
    err,             \* the exception that ended convert ("" if none)
    conv,            \* the number of calls of convert so far
    pos,             \* the element walk is at
    stack,           \* the calls of walk in progress, with what called each
    level, parents,  \* self.level, self.parents
    ctx,             \* self.ctx
    content_layer,   \* self.content_layer
    doc,             \* the nodes made so far, of every DoclingDocument
    first_header     \* Len(doc) when this conversion's first heading came (-1: none yet)

spanVars  == <<cell, int_spans, spc>>
tableVars == <<element, tpc, exc, num_rows, num_cols, grid, row_idx,
               start_row_span, col_idx, col_header, row_header, ri, ci,
               table_cells>>
walkVars  == <<soup, pc, err, conv, pos, stack, level, parents, ctx,
               content_layer, doc, first_header>>
vars == <<spanVars, tableVars, walkVars>>

-----------------------------------------------------------------------------
(* Bounds of the model.                                                    *)

\* longest colspan / rowspan attribute string tried on _get_cell_spans
MaxAttrLen == 2
\* most physical rows of a table
MaxTableRows == 2
\* most cells of a table, over all its rows
MaxTableCells == 3
\* most elements of a content tree
MaxElements == 4
\* most elements of a content tree made of a title, a paragraph, an unordered
\* list and its items
MaxEndToEnd == 5
\* most calls of convert on one backend object
MaxConverts == 2
\* the most elements of a tree of nested details and h1 elements
MaxDeep == 10

-----------------------------------------------------------------------------
(* Python strings and integers.                                            *)

DecimalDigits == <<"0", "1", "2", "3", "4", "5", "6", "7", "8", "9">>

\* Characters for which str.isnumeric() is true: the decimal digits, and
\* numeric characters that are no decimal digit (superscript two, fractions),
\* which int() rejects.  "sup2" stands for one such character.
IsNumericChar(c) == c = "sup2" \/ \E d \in 1..10 : DecimalDigits[d] = c

IsDecimalChar(c) == \E d \in 1..10 : DecimalDigits[d] = c

DigitValue(c) == (CHOOSE d \in 1..10 : DecimalDigits[d] = c) - 1

\* str.isnumeric(): non-empty and every character numeric
isnumeric(s) == Len(s) > 0 /\ \A i \in 1..Len(s) : IsNumericChar(s[i])

\* int(s) raises ValueError unless s is a decimal literal
IntRaises(s) == Len(s) = 0 \/ \E i \in 1..Len(s) : ~IsDecimalChar(s[i])

RECURSIVE int(_)
int(s) == IF Len(s) = 0 THEN 0
          ELSE 10 * int(SubSeq(s, 1, Len(s) - 1)) + DigitValue(s[Len(s)])

RECURSIVE str(_)
\* str(n) for n >= 0: the decimal string of n
str(n) == IF n < 10 THEN <<DecimalDigits[n + 1]>>
          ELSE str(n \div 10) \o <<DecimalDigits[(n % 10) + 1]>>

Max(a, b) == IF a >= b THEN a ELSE b

-----------------------------------------------------------------------------
(* Tag attributes.                                                         *)

NoAttr == [present |-> FALSE, val |-> <<>>]
Attr(s) == [present |-> TRUE, val |-> s]

\* tag.get(name, default)
Get(attr, default) == IF attr.present THEN attr.val ELSE default

-----------------------------------------------------------------------------
(* _get_cell_spans                                                         *)

raw_spans(c) == <<Get(c.colspan, <<"1">>), Get(c.rowspan, <<"1">>)>>

\* Whether the call raises: int() is applied to raw_spans[0] when it is numeric,
\* and to raw_spans[1] when raw_spans[0] is numeric.
SpansRaise(c) ==
    /\ isnumeric(raw_spans(c)[1])
    /\ IntRaises(raw_spans(c)[1]) \/ IntRaises(raw_spans(c)[2])

\* The pair returned when the call does not raise.
_get_cell_spans(c) ==
    <<IF isnumeric(raw_spans(c)[1]) THEN int(raw_spans(c)[1]) ELSE 1,
      IF isnumeric(raw_spans(c)[1]) THEN int(raw_spans(c)[2]) ELSE 1>>

AttrChars == {"0", "1", "2", "x", "sup2"}

AttrStrings == UNION {[1..n -> AttrChars] : n \in 0..MaxAttrLen}

AttrValues == {NoAttr} \cup {Attr(s) : s \in AttrStrings}

SpanOff == cell = "none" /\ int_spans = <<>> /\ spc = "off"

CallGetCellSpans ==
    /\ spc = "call"
    /\ IF SpansRaise(cell)
       THEN spc' = "raised" /\ int_spans' = int_spans
       ELSE spc' = "returned" /\ int_spans' = _get_cell_spans(cell)
    /\ UNCHANGED <<cell, tableVars, walkVars>>

-----------------------------------------------------------------------------
(* parse_table_data                                                        *)

TableOff ==
    /\ element = <<>> /\ tpc = "off" /\ exc = ""
    /\ num_rows = 0 /\ num_cols = 0 /\ grid = {}
    /\ row_idx = 0 /\ start_row_span = 0 /\ col_idx = 0
    /\ col_header = FALSE /\ row_header = FALSE
    /\ ri = 0 /\ ci = 0 /\ table_cells = <<>>


\* The cells of the modelled tables: td and th cells with and without a
\* colspan and a rowspan of 2, with a rowspan of 0, and two cells with a
\* non-numeric attribute.
Cells ==
    [name : {"td", "th"}, colspan : {NoAttr, Attr(<<"2">>)},
     rowspan : {NoAttr, Attr(<<"2">>)}]
    \cup [name : {"td", "th"}, colspan : {NoAttr}, rowspan : {Attr(<<"0">>)}]
    \cup {[name |-> "th", colspan |-> Attr(<<"x">>), rowspan |-> Attr(<<"2">>)],
          [name |-> "td", colspan |-> NoAttr, rowspan |-> Attr(<<"x">>)]}

RECURSIVE Sum(_)
Sum(s) == IF Len(s) = 0 THEN 0 ELSE Head(s) + Sum(Tail(s))

\* the numbers of cells of the rows of a table: at most MaxTableRows rows and
\* at most MaxTableCells cells in all
Shapes ==
    {lens \in UNION {[1..r -> 0..MaxTableCells] : r \in 0..MaxTableRows} :
        Sum(lens) <= MaxTableCells}

RECURSIVE TablesOf(_)
\* the tables whose rows have these numbers of cells
TablesOf(lens) ==
    IF Len(lens) = 0 THEN {<<>>}
    ELSE {<<row>> \o t : row \in [1..Head(lens) -> Cells],
                         t \in TablesOf(Tail(lens))}

\* some cell of the row makes _get_cell_spans raise
RowRaises(row) == \E k \in 1..Len(row) : SpansRaise(row[k])

RECURSIVE col_count(_)
\* lines 412-421: the sum of the column spans of the row's cells
col_count(row) ==
    IF Len(row) = 0 THEN 0
    ELSE col_count(SubSeq(row, 1, Len(row) - 1))
         + _get_cell_spans(row[Len(row)])[1]

\* lines 413-423: is_row_header starts True and a td cell, or a cell whose
\* row_span is 1, makes it False
is_row_header(row) ==
    ~\E k \in 1..Len(row) :
        row[k].name = "td" \/ _get_cell_spans(row[k])[2] = 1

\* col_header also cleared by a th cell whose row_span is 1 (the elif branch
\* of line 453 clearing both flags)
ColHeaderOf_span_test(row) ==
    ~\E k \in 1..Len(row) :
        row[k].name = "td" \/ _get_cell_spans(row[k])[2] = 1

\* lines 445-454 (placement pass): col_header
ColHeaderOf(row) == ~\E k \in 1..Len(row) : row[k].name = "td"

\* the placement pass's row_header without the elif branch of line 453
RowHeaderOf_td_only(row) == ~\E k \in 1..Len(row) : row[k].name = "td"

\* lines 446-454 (placement pass): row_header
RowHeaderOf(row) ==
    ~\E k \in 1..Len(row) :
        \/ row[k].name = "td"
        \/ row[k].name # "td" /\ _get_cell_spans(row[k])[2] = 1

\* lines 409-426, one row of the sizing pass
SizeRow ==
    /\ tpc = "size" /\ ri <= Len(element)
    /\ IF RowRaises(element[ri])
       THEN /\ tpc' = "raised" /\ exc' = "ValueError"
            /\ UNCHANGED <<num_rows, num_cols, ri>>
       ELSE /\ num_cols' = Max(num_cols, col_count(element[ri]))
            /\ num_rows' = IF is_row_header(element[ri]) THEN num_rows
                           ELSE num_rows + 1
            /\ ri' = ri + 1
            /\ UNCHANGED <<tpc, exc>>
    /\ UNCHANGED <<element, grid, row_idx, start_row_span, col_idx,
                   col_header, row_header, ci, table_cells, spanVars, walkVars>>

\* lines 428-436: the empty grid, data, and the placement pass's counters
MakeGrid ==
    /\ tpc = "size" /\ ri > Len(element)
    /\ tpc' = "rows" /\ ri' = 1
    /\ grid' = {} /\ table_cells' = <<>>
    /\ start_row_span' = 0 /\ row_idx' = -1
    /\ UNCHANGED <<element, exc, num_rows, num_cols, col_idx, col_header,
                   row_header, ci, spanVars, walkVars>>

\* lines 437-462: a row of the placement pass, up to its first cell
ClassifyRow ==
    /\ tpc = "rows" /\ ri <= Len(element)
    /\ IF RowRaises(element[ri])
       THEN /\ tpc' = "raised" /\ exc' = "ValueError"
            /\ UNCHANGED <<col_header, row_header, row_idx, start_row_span,
                           col_idx, ri, ci>>
       ELSE /\ col_header' = ColHeaderOf(element[ri])
            /\ row_header' = RowHeaderOf(element[ri])
            /\ IF ~RowHeaderOf(element[ri])
               THEN row_idx' = row_idx + 1 /\ start_row_span' = 0
               ELSE row_idx' = row_idx /\ start_row_span' = start_row_span + 1
            /\ col_idx' = 0
            /\ IF Len(element[ri]) = 0
               THEN ri' = ri + 1 /\ ci' = ci /\ tpc' = "rows"
               ELSE ri' = ri /\ ci' = 1 /\ tpc' = "cells"
            /\ exc' = exc
    /\ UNCHANGED <<element, num_rows, num_cols, grid, table_cells, spanVars, walkVars>>

\* a Python list of length n indexed at i: IndexError outside -n..n-1
IndexError(i, n) == i >= n \/ i < -n
\* the element a valid index i denotes
Wrap(i, n) == IF i < 0 THEN i + n ELSE i

RECURSIVE AdvanceCol(_, _)
\* lines 481-485: the column the while loop stops at, reading row r from column c
AdvanceCol(r, c) ==
    IF c < num_cols /\ <<Wrap(r, num_rows), c>> \in grid
    THEN AdvanceCol(r, c + 1) ELSE c

\* lines 481-483: the loop reads grid[row_idx + start_row_span] iff col_idx < num_cols
WhileRaises == col_idx < num_cols /\ IndexError(row_idx + start_row_span, num_rows)

\* lines 478-480: the cell's spans, the row span less 1 in a row-header row
EffectiveSpans(c) ==
    <<_get_cell_spans(c)[1],
      IF row_header THEN _get_cell_spans(c)[2] - 1 ELSE _get_cell_spans(c)[2]>>

\* lines 486-489: the grid slots the cell marks, from column c0
Marked(c0, spans) ==
    {<<row_idx + r, c0 + c>> :
        r \in start_row_span..(start_row_span + spans[2] - 1),
        c \in 0..(spans[1] - 1)}
    \cap ((0..(num_rows - 1)) \X (0..(num_cols - 1)))

\* lines 491-501: the TableCell
TableCell(c, c0, spans) ==
    [row_span |-> spans[2], col_span |-> spans[1],
     start_row_offset_idx |-> start_row_span + row_idx,
     end_row_offset_idx |-> start_row_span + row_idx + spans[2],
     start_col_offset_idx |-> c0,
     end_col_offset_idx |-> c0 + spans[1],
     column_header |-> col_header,
     row_header |-> (~col_header) /\ c.name = "th"]

\* lines 463-502: one cell of the placement pass
PlaceCell ==
    /\ tpc = "cells" /\ ci <= Len(element[ri])
    /\ LET c == element[ri][ci] IN
       IF SpansRaise(c)
       THEN /\ tpc' = "raised" /\ exc' = "ValueError"
            /\ UNCHANGED <<col_idx, grid, table_cells, ri, ci>>
       ELSE IF WhileRaises
       THEN /\ tpc' = "raised" /\ exc' = "IndexError"
            /\ UNCHANGED <<col_idx, grid, table_cells, ri, ci>>
       ELSE LET c0 == AdvanceCol(row_idx + start_row_span, col_idx)
                spans == EffectiveSpans(c) IN
            /\ col_idx' = c0
            /\ grid' = grid \cup Marked(c0, spans)
            /\ table_cells' = Append(table_cells, TableCell(c, c0, spans))
            /\ IF ci = Len(element[ri])
               THEN ri' = ri + 1 /\ ci' = ci /\ tpc' = "rows"
               ELSE ri' = ri /\ ci' = ci + 1 /\ tpc' = "cells"
            /\ exc' = exc
    /\ UNCHANGED <<element, num_rows, num_cols, row_idx, start_row_span,
                   col_header, row_header, spanVars, walkVars>>

\* line 504: return data
ReturnData ==
    /\ tpc = "rows" /\ ri > Len(element)
    /\ tpc' = "done"
    /\ UNCHANGED <<element, exc, num_rows, num_cols, grid, row_idx,
                   start_row_span, col_idx, col_header, row_header, ri, ci,
                   table_cells, spanVars, walkVars>>

-----------------------------------------------------------------------------
(* The element tree.  soup[i] is the i-th element of the content in        *)
(* document order: its tag name, its depth (1 for a child of the content), *)
(* the text node it starts with ("" if none) and its start attribute.  The *)
(* elements after i that are deeper than i, up to the next one that is     *)
(* not, are i's descendants.  Element 0 stands for the content itself.     *)

\* line 65
max_levels == 10

\* lines 29-49
TAGS_FOR_NODE_ITEMS ==
    {"address", "details", "h1", "h2", "h3", "h4", "h5", "h6", "p", "pre",
     "code", "ul", "ol", "li", "summary", "table", "figure", "img"}

\* the tag of a soup entry that is a text node (a NavigableString) and not
\* an element
TextNode == "#text"

\* line 176
Headings == {"h1", "h2", "h3", "h4", "h5", "h6"}
\* line 182
Lists == {"ul", "ol"}

None == 0
BODY == "body"
FURNITURE == "furniture"

SubtreeEnd(i) ==
    IF i = 0 THEN Len(soup) + 1
    ELSE LET later == {j \in (i + 1)..Len(soup) : soup[j].depth <= soup[i].depth}
         IN IF later = {} THEN Len(soup) + 1
            ELSE CHOOSE j \in later : \A k \in later : j <= k

\* the element whose child entry i is, 0 for the content itself
ParentOf(i) ==
    LET above == {j \in 1..(i - 1) : soup[j].depth < soup[i].depth}
    IN IF above = {} THEN 0 ELSE CHOOSE j \in above : \A k \in above : k <= j

Descendants(i) == (i + 1)..(SubtreeEnd(i) - 1)

\* tag.find(names) is not None
find(i, names) == \E j \in Descendants(i) : soup[j].tag \in names

RECURSIVE TextFrom(_, _)
TextFrom(j, e) == IF j >= e THEN <<>> ELSE soup[j].text \o TextFrom(j + 1, e)

\* element.text: the strings of the element's subtree, in document order
element_text(i) == TextFrom(i, SubtreeEnd(i))

RECURSIVE lstrip(_)
lstrip(s) == IF Len(s) > 0 /\ Head(s) = " " THEN lstrip(Tail(s)) ELSE s

RECURSIVE rstrip(_)
rstrip(s) == IF Len(s) > 0 /\ s[Len(s)] = " "
             THEN rstrip(SubSeq(s, 1, Len(s) - 1)) ELSE s

\* str.strip()
strip(s) == rstrip(lstrip(s))

RECURSIVE squeeze(_)
\* every run of blanks made one blank
squeeze(s) == IF Len(s) < 2 THEN s
              ELSE IF s[1] = " " /\ s[2] = " " THEN squeeze(Tail(s))
              ELSE <<s[1]>> \o squeeze(Tail(s))

\* line 351: " ".join(text.split()).strip()
join_split(s) == strip(squeeze(strip(s)))

RECURSIVE extract_text_recursively(_)
RECURSIVE ExtractChildren(_, _)
\* lines 204-216, joined: the text of a tag outside its ul / ol descendants,
\* with a blank after every tag
extract_text_recursively(i) ==
    IF soup[i].tag = TextNode THEN soup[i].text
    ELSE (IF soup[i].tag \notin Lists
          THEN soup[i].text \o ExtractChildren(i + 1, SubtreeEnd(i))
          ELSE <<>>) \o <<" ">>

\* lines 212-214: the children from j up to e, one after the other
ExtractChildren(j, e) ==
    IF j >= e THEN <<>>
    ELSE extract_text_recursively(j) \o ExtractChildren(SubtreeEnd(j), e)

\* lines 197-201
get_text(i) == extract_text_recursively(i) \o <<" ">>

\* line 235: int(element.name.replace("h", ""))
hlevel(name) == CHOOSE h \in 1..6 : name = <<"h1", "h2", "h3", "h4", "h5", "h6">>[h]

-----------------------------------------------------------------------------
(* The output document.  doc holds the nodes in the order of the add_*     *)
(* calls; a node is known by its place in doc, and its self_ref is its     *)
(* kind ("groups", "texts") with its number among the nodes of that kind   *)
(* of its own document.                                                    *)

\* a call of add_text, add_heading, add_group, add_list_group or
\* add_list_item without its parent argument: the node goes under the root
Node_under_root(label, parent, txt, layer) ==
    [doc |-> conv, el |-> pos, label |-> label, parent |-> 0, text |-> txt,
     content_layer |-> layer, enumerated |-> FALSE, marker |-> <<>>, level |-> 0]

\* the node a call of add_text, add_heading, add_group, add_list_group or
\* add_list_item makes; doc is the conversion and el the element it is made for
Node(label, parent, txt, layer) ==
    [doc |-> conv, el |-> pos, label |-> label, parent |-> parent, text |-> txt,
     content_layer |-> layer, enumerated |-> FALSE, marker |-> <<>>, level |-> 0]

Kind(label) == IF label \in {"group", "list_group"} THEN "groups" ELSE "texts"

\* node.self_ref, for node n of the nodes d
self_ref(d, n) ==
    <<Kind(d[n].label),
      Cardinality({m \in 1..(n - 1) : d[m].doc = d[n].doc
                                      /\ Kind(d[m].label) = Kind(d[n].label)})>>

\* parent.children
children(n) == {m \in 1..Len(doc) : doc[m].parent = n}

\* a dict with d[k] = v set
DictSet(d, k, v) == [x \in DOMAIN d \cup {k} |-> IF x = k THEN v ELSE d[x]]

\* _Context(), lines 52-54
_Context == [list_ordered_flag_by_ref |-> <<>>, list_start_by_ref |-> <<>>]

-----------------------------------------------------------------------------
(* convert, walk and the handlers.  A handler that calls walk is two       *)
(* actions: up to the call, which leaves a frame on the stack, and from    *)
(* the return of walk on.                                                  *)

WalkOff ==
    /\ soup = <<>> /\ pc = "off" /\ err = "" /\ conv = 0 /\ pos = 0
    /\ stack = <<>> /\ level = 0 /\ parents = <<>> /\ ctx = _Context
    /\ content_layer = "unset" /\ doc = <<>> /\ first_header = -1

Top == stack[Len(stack)]

\* a call of walk(tag, doc) for element idx by k: its text buffer (line 142)
\* is empty; level is the level at the call and first the first text node
\* with text in the buffer, 0 if none (both kept for the record only)
Frame(idx, k) ==
    [idx |-> idx, k |-> k, level |-> level, text |-> <<>>, first |-> 0]

\* walk is at a child element with one of these tag names (lines 143-146)
AtTag(names) ==
    /\ pc = "walk"
    /\ pos < SubtreeEnd(Top.idx)
    /\ soup[pos].tag \in names

\* walk has no child left, and was called by k (line 173)
AtEnd(k) ==
    /\ pc = "walk"
    /\ pos >= SubtreeEnd(Top.idx)
    /\ Top.k = k

\* an exception leaves convert: every walk in progress re-raises it (line 151)
Raise(e) == pc' = "raised" /\ err' = e /\ stack' = <<>>

\* lines 127-132, with the state that __init__ or the last conversion left
ConvertBody ==
    /\ conv' = conv + 1
    /\ content_layer' = IF find(0, Headings) THEN FURNITURE ELSE BODY
    /\ ctx' = _Context
    /\ stack' = <<Frame(0, "convert")>>
    /\ pos' = 1 /\ pc' = "walk" /\ err' = "" /\ first_header' = -1
    /\ UNCHANGED <<soup, level, parents, doc, spanVars, tableVars>>

\* lines 108-132: the first call of convert on the object
Convert == pc = "init" /\ ConvertBody

\* line 138: walk returned to convert
ConvertReturn ==
    /\ AtEnd("convert")
    /\ pc' = "done" /\ stack' = <<>>
    /\ UNCHANGED <<soup, err, conv, pos, level, parents, ctx, content_layer,
                   doc, first_header, spanVars, tableVars>>

\* handle_header leaving self.content_layer as it is
header_layer_kept == content_layer

\* line 238: the content layer from the first heading on
header_layer == BODY

\* lines 254-260: the groups filling the depths from level + 1 to h - 1
GapGroups(h) ==
    [k \in 1..(IF h > level + 1 THEN h - 1 - level ELSE 0) |->
        Node("group", IF k = 1 THEN parents[level] ELSE Len(doc) + k - 1,
             <<>>, header_layer)]

\* lines 252-268: self.parents before the heading node is made
ParentsForHeading(h) ==
    [k \in DOMAIN parents \cup ((level + 1)..(h - 1)) |->
        IF h > level /\ k \in (level + 1)..(h - 1) THEN Len(doc) + k - level
        ELSE IF h < level /\ k > h THEN None
        ELSE parents[k]]

\* lines 233-275
handle_header ==
    /\ AtTag(Headings)
    /\ LET h == hlevel(soup[pos].tag)
           txt == strip(element_text(pos)) IN
       /\ content_layer' = header_layer
       /\ first_header' = IF first_header = -1 THEN Len(doc) ELSE first_header
       /\ IF h = 1
          THEN /\ level' = 1
               /\ doc' = Append(doc, Node("title", None, txt, header_layer))
               /\ parents' = [k \in DOMAIN parents |->
                                 IF k = 1 THEN Len(doc) + 1 ELSE None]
               /\ pos' = SubtreeEnd(pos)
               /\ UNCHANGED <<pc, err, stack>>
          ELSE IF h > level + 1 /\ level \notin DOMAIN parents
          THEN /\ Raise("KeyError")
               /\ UNCHANGED <<level, doc, parents, pos>>
          ELSE LET ps == ParentsForHeading(h)
                   made == doc \o GapGroups(h) IN
               /\ level' = h
               /\ doc' = Append(made, [Node("section_header", ps[h - 1], txt, header_layer)
                                          EXCEPT !.level = h - 1])
               /\ parents' = DictSet(ps, h, Len(made) + 1)
               /\ pos' = SubtreeEnd(pos)
               /\ UNCHANGED <<pc, err, stack>>
    /\ UNCHANGED <<soup, conv, ctx, spanVars, tableVars>>

\* lines 289-300
handle_paragraph ==
    /\ AtTag({"p", "address", "summary"})
    /\ LET txt == strip(element_text(pos)) IN
       IF Len(txt) > 0 /\ level \notin DOMAIN parents
       THEN Raise("KeyError") /\ UNCHANGED <<doc, pos>>
       ELSE /\ doc' = IF Len(txt) > 0
                      THEN Append(doc, Node("text", parents[level], txt, content_layer))
                      ELSE doc
            /\ pos' = SubtreeEnd(pos)
            /\ UNCHANGED <<pc, err, stack>>
    /\ UNCHANGED <<soup, conv, level, parents, ctx, content_layer, first_header,
                   spanVars, tableVars>>

\* lines 218-229
handle_details ==
    /\ AtTag({"details"})
    /\ IF level \notin DOMAIN parents
       THEN Raise("KeyError") /\ UNCHANGED <<doc, parents, level, pos>>
       ELSE /\ doc' = Append(doc, Node("group", parents[level], <<>>, content_layer))
            /\ parents' = DictSet(parents, level + 1, Len(doc) + 1)
            /\ level' = level + 1
            /\ stack' = Append(stack, Frame(pos, "details"))
            /\ pos' = pos + 1
            /\ UNCHANGED <<pc, err>>
    /\ UNCHANGED <<soup, conv, ctx, content_layer, first_header, spanVars, tableVars>>

\* self.parents[self.level + 1] = None; self.level -= 1, after walk returned
Pop ==
    /\ parents' = DictSet(parents, level + 1, None)
    /\ level' = level - 1
    /\ stack' = SubSeq(stack, 1, Len(stack) - 1)
    /\ UNCHANGED <<soup, pc, err, conv, pos, ctx, content_layer, doc,
                   first_header, spanVars, tableVars>>

\* lines 230-231
handle_details_return == AtEnd("details") /\ Pop

\* lines 302-326
handle_list ==
    /\ AtTag(Lists)
    /\ LET is_ordered == soup[pos].tag = "ol"
           start_attr == soup[pos].start
           numeric == is_ordered /\ start_attr.present /\ isnumeric(start_attr.val) IN
       IF numeric /\ IntRaises(start_attr.val)
       THEN Raise("ValueError") /\ UNCHANGED <<doc, parents, level, pos, ctx>>
       ELSE IF level \notin DOMAIN parents
       THEN Raise("KeyError") /\ UNCHANGED <<doc, parents, level, pos, ctx>>
       ELSE LET made == Append(doc, Node("list_group", parents[level], <<>>,
                                         content_layer))
                ref == self_ref(made, Len(made)) IN
            /\ doc' = made
            /\ parents' = DictSet(parents, level + 1, Len(made))
            /\ ctx' = [list_ordered_flag_by_ref |->
                           DictSet(ctx.list_ordered_flag_by_ref, ref, is_ordered),
                       list_start_by_ref |->
                           IF numeric
                           THEN DictSet(ctx.list_start_by_ref, ref, int(start_attr.val))
                           ELSE ctx.list_start_by_ref]
            /\ level' = level + 1
            /\ stack' = Append(stack, Frame(pos, "list"))
            /\ pos' = pos + 1
            /\ UNCHANGED <<pc, err>>
    /\ UNCHANGED <<soup, conv, content_layer, first_header, spanVars, tableVars>>

\* lines 328-329
handle_list_return == AtEnd("list") /\ Pop

\* line 339
enumerated(parent) ==
    LET ref == self_ref(doc, parent) IN
    IF ref \in DOMAIN ctx.list_ordered_flag_by_ref
    THEN ctx.list_ordered_flag_by_ref[ref] ELSE FALSE

\* line 340: start := self.ctx.list_start_by_ref.get(parent.self_ref), in an
\* if: neither None nor 0
start_is_truthy(parent) ==
    LET ref == self_ref(doc, parent) IN
    /\ ref \in DOMAIN ctx.list_start_by_ref
    /\ ctx.list_start_by_ref[ref] # 0

\* lines 340-343
marker(parent) ==
    IF enumerated(parent) /\ start_is_truthy(parent)
    THEN str(ctx.list_start_by_ref[self_ref(doc, parent)]
             + Cardinality(children(parent))) \o <<".">>
    ELSE <<>>

\* doc.add_list_item of lines 355-361 and 372-378
ListItem(parent, txt) ==
    [Node("list_item", parent, txt, content_layer)
        EXCEPT !.enumerated = enumerated(parent), !.marker = marker(parent)]

\* lines 331-380, up to the call of walk
handle_list_item ==
    /\ AtTag({"li"})
    /\ IF level \notin DOMAIN parents
       THEN Raise("KeyError") /\ UNCHANGED <<doc, parents, level, pos>>
       ELSE LET parent == parents[level]
                nested_list == find(pos, Lists)
                own == join_split(get_text(pos))
                all == strip(element_text(pos)) IN
            /\ UNCHANGED <<pc, err>>
            /\ IF parent = None
               THEN /\ pos' = SubtreeEnd(pos)
                    /\ UNCHANGED <<doc, parents, level, stack>>
               ELSE IF nested_list /\ Len(own) > 0
               THEN /\ doc' = Append(doc, ListItem(parent, own))
                    /\ parents' = DictSet(parents, level + 1, Len(doc) + 1)
                    /\ level' = level + 1
                    /\ stack' = Append(stack, Frame(pos, "list_item"))
                    /\ pos' = pos + 1
               ELSE IF nested_list
               THEN /\ stack' = Append(stack, Frame(pos, "walk"))
                    /\ pos' = pos + 1
                    /\ UNCHANGED <<doc, parents, level>>
               ELSE /\ doc' = IF Len(all) > 0
                              THEN Append(doc, ListItem(parent, all)) ELSE doc
                    /\ pos' = SubtreeEnd(pos)
                    /\ UNCHANGED <<parents, level, stack>>
    /\ UNCHANGED <<soup, conv, ctx, content_layer, first_header, spanVars, tableVars>>

\* lines 364-365
handle_list_item_return == AtEnd("list_item") /\ Pop

\* the tag names analyze_tag has a handler for (lines 176-192)
HandledTags ==
    Headings \cup Lists
    \cup {"p", "address", "summary", "pre", "code", "li", "table", "figure",
          "img", "details"}

\* lines 194-195: any other tag is walked
analyze_tag_else ==
    /\ pc = "walk"
    /\ pos < SubtreeEnd(Top.idx)
    /\ soup[pos].tag \notin HandledTags \cup {TextNode}
    /\ stack' = Append(stack, Frame(pos, "walk"))
    /\ pos' = pos + 1
    /\ UNCHANGED <<soup, pc, err, conv, level, parents, ctx, content_layer,
                   doc, first_header, spanVars, tableVars>>

\* line 160: element.next_sibling is None
NoNextSibling(i) == SubtreeEnd(i) >= SubtreeEnd(ParentOf(i))

\* lines 157-159: the elements among the siblings after i
siblings(i) ==
    {j \in (i + 1)..(SubtreeEnd(ParentOf(i)) - 1) :
        soup[j].depth = soup[i].depth /\ soup[j].tag # TextNode}

\* the flush only at the last child (line 160 without its second test)
flushes_at_end(i) == NoNextSibling(i)

\* lines 160-162
flushes(i) ==
    \/ NoNextSibling(i)
    \/ \E j \in siblings(i) : soup[j].tag \in TAGS_FOR_NODE_ITEMS

\* lines 165-170, for the text node first
FlushedText(txt, first) ==
    [Node("text", parents[level], txt, content_layer) EXCEPT !.el = first]

\* lines 152-171: a child of the walked tag that is a text node
walk_text ==
    /\ AtTag({TextNode})
    /\ LET text == Top.text \o soup[pos].text
           first == IF Top.first # 0 \/ strip(soup[pos].text) = <<>>
                    THEN Top.first ELSE pos
           emits == /\ Len(strip(text)) > 0
                    /\ Top.idx # 0 /\ soup[Top.idx].tag = "div" IN
       IF flushes(pos) /\ emits /\ level \notin DOMAIN parents
       THEN Raise("KeyError") /\ UNCHANGED <<doc, pos>>
       ELSE /\ doc' = IF flushes(pos) /\ emits
                      THEN Append(doc, FlushedText(strip(text), first))
                      ELSE doc
            /\ stack' = [stack EXCEPT ![Len(stack)] =
                            IF flushes(pos)
                            THEN [@ EXCEPT !.text = <<>>, !.first = 0]
                            ELSE [@ EXCEPT !.text = text, !.first = first]]
            /\ pos' = pos + 1
            /\ UNCHANGED <<pc, err>>
    /\ UNCHANGED <<soup, conv, level, parents, ctx, content_layer, first_header,
                   spanVars, tableVars>>

\* line 173: walk returns to a caller that does nothing more (lines 195, 367)
walk_return ==
    /\ AtEnd("walk")
    /\ stack' = SubSeq(stack, 1, Len(stack) - 1)
    /\ UNCHANGED <<soup, pc, err, conv, pos, level, parents, ctx, content_layer,
                   doc, first_header, spanVars, tableVars>>

-----------------------------------------------------------------------------
(* The specifications.                                                     *)

\* _get_cell_spans on every cell with attribute strings up to MaxAttrLen
InitSpans ==
    /\ cell \in [name : {"td", "th"}, colspan : AttrValues, rowspan : AttrValues]
    /\ int_spans = <<>> /\ spc = "call"
    /\ TableOff /\ WalkOff

NextSpans == CallGetCellSpans

SpecSpans == InitSpans /\ [][NextSpans]_vars

\* parse_table_data on every table of Tables
InitTable ==
    /\ \E lens \in Shapes : element \in TablesOf(lens)
    /\ tpc = "size" /\ exc = ""
    /\ num_rows = 0 /\ num_cols = 0 /\ grid = {}
    /\ row_idx = 0 /\ start_row_span = 0 /\ col_idx = 0
    /\ col_header = FALSE /\ row_header = FALSE
    /\ ri = 1 /\ ci = 0 /\ table_cells = <<>>
    /\ SpanOff /\ WalkOff

NextTable == SizeRow \/ MakeGrid \/ ClassifyRow \/ PlaceCell \/ ReturnData

SpecTable == InitTable /\ [][NextTable]_vars

\* the content trees tried: the tag names whose elements have children, and
\* the elements of each family of trees
Containers == {"ul", "ol", "li", "details", "div", "span"}

El(tag, txt, start) == [tag |-> tag, text |-> txt, start |-> start]

Title == <<"T", "i", "t", "l", "e">>
Hello == <<"H", "e", "l", "l", "o">>

HeadingElements ==
    {El("h1", Title, NoAttr), El("h2", <<"h">>, NoAttr), El("h3", <<"h">>, NoAttr),
     El("p", Hello, NoAttr), El("details", <<>>, NoAttr), El("ul", <<>>, NoAttr),
     El("div", <<>>, NoAttr)}

ListElements ==
    {El("ol", <<>>, NoAttr), El("ol", <<>>, Attr(<<"0">>)),
     El("ol", <<>>, Attr(<<"5">>)), El("ol", <<>>, Attr(<<"x">>)),
     El("ul", <<>>, NoAttr), El("li", <<"a">>, NoAttr), El("li", <<" ">>, NoAttr)}

NestedElements ==
    {El("ul", <<>>, NoAttr), El("li", <<"a">>, NoAttr), El("li", <<" ">>, NoAttr),
     El("h1", Title, NoAttr), El("h2", <<"h">>, NoAttr)}

EndToEndElements ==
    {El("h1", Title, NoAttr), El("p", Hello, NoAttr), El("ul", <<>>, NoAttr),
     El("li", <<"a">>, NoAttr), El("li", <<"b">>, NoAttr)}

\* a div's and a span's own text is in text nodes among their children
TextElements ==
    {El("div", <<>>, NoAttr), El("span", <<>>, NoAttr), El("p", <<"x">>, NoAttr),
     El(TextNode, <<"a">>, NoAttr), El(TextNode, <<" ">>, NoAttr)}

DeepElements == {El("details", <<>>, NoAttr), El("h1", Title, NoAttr)}

Families ==
    {[els |-> HeadingElements, n |-> MaxElements],
     [els |-> ListElements, n |-> MaxElements],
     [els |-> NestedElements, n |-> MaxElements],
     [els |-> EndToEndElements, n |-> MaxEndToEnd],
     [els |-> TextElements, n |-> MaxEndToEnd]}

RECURSIVE Depths(_, _, _)
\* the depths the elements els[i..] may have, the i-th at most at depth d
Depths(els, i, d) ==
    IF i > Len(els) THEN {<<>>}
    ELSE UNION {{<<x>> \o rest :
                    rest \in Depths(els, i + 1,
                                    IF els[i].tag \in Containers THEN x + 1 ELSE x)} :
                x \in 1..d}

RECURSIVE DeepDepths(_, _, _)
\* the same for trees in which only the last element may be an empty container
DeepDepths(els, i, d) ==
    IF i > Len(els) THEN {<<>>}
    ELSE UNION {{<<x>> \o rest :
                    rest \in DeepDepths(els, i + 1,
                                        IF els[i].tag \in Containers THEN x + 1 ELSE x)} :
                x \in IF i > 1 /\ els[i - 1].tag \in Containers THEN {d} ELSE 1..d}

Tree(els, ds) ==
    [i \in 1..Len(els) |->
        [tag |-> els[i].tag, depth |-> ds[i],
         text |-> els[i].text, start |-> els[i].start]]

\* lines 59-84: the object as __init__ leaves it, for every tree of the
\* families and every tree of up to MaxDeep nested details and h1 elements
Init ==
    /\ \/ \E fam \in Families : \E n \in 0..fam.n : \E els \in [1..n -> fam.els] :
             \E ds \in Depths(els, 1, 1) : soup = Tree(els, ds)
       \/ \E n \in 1..MaxDeep : \E els \in [1..n -> DeepElements] :
             \E ds \in DeepDepths(els, 1, 1) : soup = Tree(els, ds)
    /\ pc = "init" /\ err = "" /\ conv = 0 /\ pos = 0 /\ stack = <<>>
    /\ level = 0
    /\ parents = [i \in 0..(max_levels - 1) |-> None]
    /\ ctx = _Context
    /\ content_layer = "unset" /\ doc = <<>> /\ first_header = -1
    /\ SpanOff /\ TableOff

\* one conversion by a new object
Next ==
    \/ Convert \/ ConvertReturn
    \/ handle_header \/ handle_paragraph
    \/ handle_details \/ handle_details_return
    \/ handle_list \/ handle_list_return
    \/ handle_list_item \/ handle_list_item_return
    \/ analyze_tag_else \/ walk_text \/ walk_return

Spec == Init /\ [][Next]_vars

\* lines 108-132: convert called again on the object, after it returned or raised
ConvertAgain ==
    /\ pc \in {"done", "raised"} /\ conv < MaxConverts
    /\ ConvertBody

NextReuse == Next \/ ConvertAgain

\* up to MaxConverts conversions by one object
SpecReuse == Init /\ [][NextReuse]_vars

-----------------------------------------------------------------------------
(* Span extraction as documented: an attribute that is absent or not       *)
(* numeric counts as 1, a numeric one as its integer value.                *)

DeclaredSpan(attr) ==
    IF attr.present /\ ~IntRaises(attr.val) THEN int(attr.val) ELSE 1

\* C3: _get_cell_spans never raises, and returns for each of colspan and
\* rowspan, decided from that attribute alone, its integer value when it is
\* numeric and 1 when it is absent or non-numeric.
C3_SpansDefaultIndependently ==
    /\ spc # "raised"
    /\ spc = "returned" =>
          int_spans = <<DeclaredSpan(cell.colspan), DeclaredSpan(cell.rowspan)>>

-----------------------------------------------------------------------------
(* Table claims.                                                           *)

Rect(c) == (c.start_row_offset_idx..(c.end_row_offset_idx - 1))
           \X (c.start_col_offset_idx..(c.end_col_offset_idx - 1))

\* C1: any two distinct TableCells emitted by parse_table_data have disjoint
\* rectangles [start_row, end_row) x [start_col, end_col).
C1_NoOverlap ==
    \A i, j \in 1..Len(table_cells) :
        i # j => Rect(table_cells[i]) \cap Rect(table_cells[j]) = {}

plain(name) == [name |-> name, colspan |-> NoAttr, rowspan |-> NoAttr]

\* one row with a single th cell of colspan 2, then a row of two plain td cells
C4Table ==
    << <<[name |-> "th", colspan |-> Attr(<<"2">>), rowspan |-> NoAttr]>>,
       <<plain("td"), plain("td")>> >>

C4Returned == tpc = "done" /\ element = C4Table

\* C4 as stated: the table of a column-header row with one cell spanning 2
\* columns and a data row of 2 plain cells has num_cols = 2 and num_rows = 1,
\* and the spanning cell is a column header over the columns [0, 2).
C4_HeaderRowNotCounted ==
    C4Returned =>
        /\ num_cols = 2 /\ num_rows = 1
        /\ table_cells[1].column_header
        /\ table_cells[1].start_col_offset_idx = 0
        /\ table_cells[1].end_col_offset_idx = 2

\* C4 as amended: that table has num_cols = 2 and num_rows = 2 (the
\* column-header row is counted), and the spanning cell is a column header
\* over the columns [0, 2).
C4_HeaderRowCounted ==
    C4Returned =>
        /\ num_cols = 2 /\ num_rows = 2
        /\ table_cells[1].column_header
        /\ table_cells[1].start_col_offset_idx = 0
        /\ table_cells[1].end_col_offset_idx = 2

RECURSIVE DeclaredWidth(_)
\* the sum of the declared column spans of a row's cells
DeclaredWidth(row) ==
    IF Len(row) = 0 THEN 0
    ELSE DeclaredWidth(SubSeq(row, 1, Len(row) - 1))
         + DeclaredSpan(row[Len(row)].colspan)

\* every cell of the row is a th cell with a row span other than 1
DeclaredRowHeaderRow(row) ==
    \A k \in 1..Len(row) :
        row[k].name = "th" /\ DeclaredSpan(row[k].rowspan) # 1

RECURSIVE MaxWidth(_)
MaxWidth(t) ==
    IF Len(t) = 0 THEN 0 ELSE Max(DeclaredWidth(Head(t)), MaxWidth(Tail(t)))

\* C5: parse_table_data returns num_cols = the largest sum of column spans of
\* a row, and num_rows = the number of rows that are not row-header rows (a
\* row-header row: every cell is a th cell with row span other than 1).
C5_SizingOfDeclaredSpans ==
    tpc = "done" =>
        /\ num_cols = MaxWidth(element)
        /\ num_rows = Cardinality({k \in 1..Len(element) :
                                      ~DeclaredRowHeaderRow(element[k])})


-----------------------------------------------------------------------------
(* Converter claims.                                                       *)

\* the element enclosing element i, 0 for the content itself
ParentEl(i) ==
    LET above == {j \in 1..(i - 1) : soup[j].depth < soup[i].depth}
    IN IF above = {} THEN 0 ELSE CHOOSE j \in above : \A k \in above : k <= j

At(tag, depth, txt, start) ==
    [tag |-> tag, depth |-> depth, text |-> txt, start |-> start]

\* <ol start="5"><li>a</li><li>a</li><li>a</li></ol>
C2Example ==
    <<At("ol", 1, <<>>, Attr(<<"5">>)), At("li", 2, <<"a">>, NoAttr),
      At("li", 2, <<"a">>, NoAttr), At("li", 2, <<"a">>, NoAttr)>>

\* C2: a list item's marker is str(s + number of children its parent already
\* has) followed by "." whenever the parent list group is ordered and a start
\* value s (0 included) is registered for it, and empty otherwise; the list
\* with start=5 and three text-only items yields "5.", "6.", "7." in order.
C2_Markers ==
    /\ \A n \in 1..Len(doc) :
          doc[n].label = "list_item" /\ doc[n].doc = conv =>
             LET p == doc[n].parent
                 ref == self_ref(doc, p)
                 ordered == /\ doc[p].label = "list_group"
                            /\ ref \in DOMAIN ctx.list_ordered_flag_by_ref
                            /\ ctx.list_ordered_flag_by_ref[ref]
                 registered == ref \in DOMAIN ctx.list_start_by_ref
                 already == Cardinality({m \in 1..(n - 1) : doc[m].parent = p})
             IN doc[n].marker =
                   IF ordered /\ registered
                   THEN str(ctx.list_start_by_ref[ref] + already) \o <<".">>
                   ELSE <<>>
    /\ (pc = "done" /\ soup = C2Example) =>
          /\ Len(doc) = 4
          /\ doc[2].marker = <<"5", ".">>
          /\ doc[3].marker = <<"6", ".">>
          /\ doc[4].marker = <<"7", ".">>

\* <h1>Title</h1><h3>h</h3><h2>h</h2>
C6Example ==
    <<At("h1", 1, Title, NoAttr), At("h3", 1, <<"h">>, NoAttr),
      At("h2", 1, <<"h">>, NoAttr)>>

\* C6: a heading of depth h > 1 processed at a level L < h makes one group
\* for each depth i in L+1..h-1, a child of slot[i-1] and stored in slot[i],
\* then the level is h and the heading (external level h-1) is made under
\* slot[h-1] and stored in slot[h]; for h1, h3, h2 the h3 has a synthesized
\* group as parent and the h2 has the Title, a child of the root, as parent.
C6_GapFilling ==
    [][ /\ (AtTag(Headings) /\ hlevel(soup[pos].tag) > 1
              /\ level < hlevel(soup[pos].tag)) =>
            LET h == hlevel(soup[pos].tag)
                n == Len(doc) IN
            /\ pc' = "walk"
            /\ Len(doc') = n + (h - 1 - level) + 1
            /\ \A i \in (level + 1)..(h - 1) :
                  /\ doc'[n + i - level].label = "group"
                  /\ doc'[n + i - level].parent =
                        (IF i = level + 1 THEN parents[level] ELSE parents'[i - 1])
                  /\ parents'[i] = n + i - level
            /\ level' = h
            /\ doc'[Len(doc')].label = "section_header"
            /\ doc'[Len(doc')].level = h - 1
            /\ doc'[Len(doc')].parent = parents'[h - 1]
            /\ parents'[h] = Len(doc')
        /\ (pc' = "done" /\ soup = C6Example) =>
            /\ Len(doc') = 4
            /\ doc'[1].label = "title" /\ doc'[1].parent = None
            /\ doc'[2].label = "group" /\ doc'[2].parent = 1
            /\ doc'[3].label = "section_header" /\ doc'[3].parent = 2
            /\ doc'[4].label = "section_header" /\ doc'[4].parent = 1
      ]_vars

\* the layer convert starts with: FURNITURE iff the content has a heading tag
InitialLayer ==
    IF \E i \in 1..Len(soup) : soup[i].tag \in Headings THEN FURNITURE ELSE BODY

\* C7: the content layer of a conversion is FURNITURE iff the content has a
\* heading tag (else BODY) until the first heading is processed and BODY from
\* then on; every node made after a processed heading is BODY, every node
\* made before the first one carries the initial value.
C7_ContentLayer ==
    pc \in {"walk", "done", "raised"} =>
        /\ content_layer = IF first_header = -1 THEN InitialLayer ELSE BODY
        /\ \A n \in 1..Len(doc) :
              doc[n].doc = conv =>
                 doc[n].content_layer =
                    IF first_header # -1 /\ n > first_header
                    THEN BODY ELSE InitialLayer

\* a conversion that made a node before its first heading and one after it
C7BothLayers ==
    /\ pc = "done" /\ first_header # -1
    /\ \E n, m \in 1..Len(doc) :
          /\ doc[n].doc = conv /\ doc[m].doc = conv
          /\ n <= first_header /\ first_header + 1 < m
          /\ doc[n].content_layer = FURNITURE

\* C8: at the start of every convert call, a second call on the same object
\* included, the level is 0, every slot is null, the list context is empty
\* and the content layer is recomputed.
C8_FreshAtConvert ==
    (pc = "walk" /\ pos = 1 /\ Len(stack) = 1 /\ Top.k = "convert") =>
        /\ level = 0
        /\ \A k \in DOMAIN parents : parents[k] = None
        /\ ctx = _Context
        /\ content_layer = InitialLayer

\* C9: a list item with a nested list and no own text makes no node and
\* leaves the level as it is; its children are walked at that level, where
\* the current parent is the list group of the enclosing list.
C9_SublistOnlyItem ==
    [][ (/\ AtTag({"li"})
         /\ ParentEl(pos) # 0 /\ soup[ParentEl(pos)].tag \in Lists
         /\ find(pos, Lists)
         /\ join_split(get_text(pos)) = <<>>) =>
            /\ doc' = doc /\ level' = level /\ parents' = parents
            /\ pc' = "walk" /\ pos' = pos + 1
            /\ level \in DOMAIN parents /\ parents[level] # None
            /\ doc[parents[level]].label = "list_group"
            /\ doc[parents[level]].doc = conv
            /\ doc[parents[level]].el = ParentEl(pos)
      ]_vars

\* <h1>Title</h1><p>Hello</p><ul><li>a</li><li>b</li></ul>
C10Input ==
    <<At("h1", 1, Title, NoAttr), At("p", 1, Hello, NoAttr),
      At("ul", 1, <<>>, NoAttr), At("li", 2, <<"a">>, NoAttr),
      At("li", 2, <<"b">>, NoAttr)>>

C10Node(label, parent, txt) ==
    [label |-> label, parent |-> parent, text |-> txt, content_layer |-> BODY,
     enumerated |-> FALSE, marker |-> <<>>]

\* what the claim says of a node
C10View(n) ==
    [label |-> n.label, parent |-> n.parent, text |-> n.text,
     content_layer |-> n.content_layer, enumerated |-> n.enumerated,
     marker |-> n.marker]

C10Converted == pc = "done" /\ soup = C10Input

\* C10: h1 'Title', p 'Hello', ul of items 'a' and 'b', converted by a new
\* object, makes in this order the Title under the root, the Text 'Hello'
\* and a ListGroup under the Title, and the ListItems 'a' and 'b' under the
\* ListGroup, not enumerated and with an empty marker; all of them are BODY.
C10_EndToEnd ==
    C10Converted =>
        [n \in 1..Len(doc) |-> C10View(doc[n])] =
            <<C10Node("title", None, Title), C10Node("text", 1, Hello),
              C10Node("list_group", 1, <<>>), C10Node("list_item", 3, <<"a">>),
              C10Node("list_item", 3, <<"b">>)>>


-----------------------------------------------------------------------------
(* Emission order and loose text.                                          *)

\* C11: the add_* calls of a conversion are made in document order: a node
\* made for content that comes earlier in the element tree is added earlier;
\* loose text of a div is never added after a node of an element that
\* follows that text.
C11_DocumentOrder ==
    \A n, m \in 1..Len(doc) :
        (n < m /\ doc[n].doc = conv /\ doc[m].doc = conv) => doc[n].el <= doc[m].el

\* the first element among the siblings after entry i, 0 if none
NextSiblingElement(i) ==
    LET after == {j \in (i + 1)..(SubtreeEnd(ParentEl(i)) - 1) :
                     soup[j].depth = soup[i].depth /\ soup[j].tag # TextNode}
    IN IF after = {} THEN 0 ELSE CHOOSE j \in after : \A k \in after : j <= k

\* entry i is the last child of its parent
LastChild(i) ==
    ~\E j \in (i + 1)..(SubtreeEnd(ParentEl(i)) - 1) : soup[j].depth = soup[i].depth

\* the text node has no following sibling, or its next sibling element is in
\* the node-producing tag set
FlushAtNext(i) ==
    \/ LastChild(i)
    \/ /\ NextSiblingElement(i) # 0
       /\ soup[NextSiblingElement(i)].tag \in TAGS_FOR_NODE_ITEMS

\* the text node has no following sibling, or one of its following sibling
\* elements is in the node-producing tag set
FlushAtAny(i) ==
    \/ LastChild(i)
    \/ \E j \in (i + 1)..(SubtreeEnd(ParentEl(i)) - 1) :
          /\ soup[j].depth = soup[i].depth
          /\ soup[j].tag \in TAGS_FOR_NODE_ITEMS

\* what walk does at a text node when f tells whether the buffer is flushed:
\* the buffer is cleared iff f, and one Text node (the trimmed buffer, under
\* slot[level]) is added iff f, the trimmed buffer is non-empty and the
\* walked element is a div (unless the read of slot[level] raises)
TextStep(f) ==
    LET buf == Top.text \o soup[pos].text
        emits == /\ f /\ strip(buf) # <<>>
                 /\ ParentEl(pos) # 0 /\ soup[ParentEl(pos)].tag = "div" IN
    /\ pc' = "walk" => stack'[Len(stack')].text = (IF f THEN <<>> ELSE buf)
    /\ IF emits /\ pc' = "walk"
       THEN /\ Len(doc') = Len(doc) + 1
            /\ SubSeq(doc', 1, Len(doc)) = doc
            /\ doc'[Len(doc')].label = "text"
            /\ doc'[Len(doc')].text = strip(buf)
            /\ doc'[Len(doc')].parent = parents[level]
       ELSE doc' = doc
    /\ pc' = "raised" => emits /\ level \notin DOMAIN parents

\* C12 as stated: walk flushes and clears its text buffer at a text node
\* exactly when the node has no following sibling or its next sibling element
\* is in the node-producing tag set; a flush adds one Text node (the trimmed
\* buffer, under slot[level]) only if the trimmed buffer is non-empty and the
\* walked element is a div, and nothing otherwise.
C12_FlushAtNextSibling ==
    [][AtTag({TextNode}) => TextStep(FlushAtNext(pos))]_vars

\* C12 as amended: the same, with the flush exactly when the node has no
\* following sibling or any of its following sibling elements is in the
\* node-producing tag set.
C12_FlushAtAnySibling ==
    [][AtTag({TextNode}) => TextStep(FlushAtAny(pos))]_vars

\* a text of a div flushed ahead of a sibling element outside the tag set,
\* because a later sibling is in the set
C12FlushedEarly ==
    /\ pc = "done"
    /\ \E n \in 1..Len(doc) :
          LET i == doc[n].el IN
          /\ doc[n].label = "text" /\ soup[i].tag = TextNode
          /\ FlushAtAny(i) /\ ~FlushAtNext(i)

-----------------------------------------------------------------------------
(* Tables: row spans and the two row-header tests.                         *)

\* C13: every TableCell emitted has row_span >= 1 after the row-header
\* adjustment, so its end_row_offset_idx is greater than its
\* start_row_offset_idx.
C13_RowSpanPositive ==
    \A i \in 1..Len(table_cells) :
        /\ table_cells[i].row_span >= 1
        /\ table_cells[i].end_row_offset_idx > table_cells[i].start_row_offset_idx

-----------------------------------------------------------------------------
(* The hierarchy: level and slots.                                         *)

Between == pc \in {"walk", "done"}

\* C14: between element handlers every slot with an index greater than the
\* current level is null.
C14_SlotsAboveLevelNull ==
    Between => \A k \in DOMAIN parents : k > level => parents[k] = None

\* C15: in every state of a conversion 0 <= level <= 9 and only the slots
\* 0..9 exist.
C15_LevelInRange ==
    pc \in {"walk", "done", "raised"} =>
        /\ level \in 0..(max_levels - 1)
        /\ DOMAIN parents = 0..(max_levels - 1)

\* C16: when the handler of a details, a ul/ol or a list item with a nested
\* list and own text returns, the level is the level at its entry and the
\* slot it set to the container node is null again.
C16_ContainerRestores ==
    [][(AtEnd("details") \/ AtEnd("list") \/ AtEnd("list_item")) =>
          /\ level' = Top.level
          /\ parents'[Top.level + 1] = None]_vars

\* C17: processing an h1 sets the level to 1, makes a Title node under the
\* root and stores it in slot[1], leaves every slot from 2 on null and
\* slot[0] as it was, and sets the content layer to BODY.
C17_TitleResets ==
    [][AtTag({"h1"}) =>
          /\ level' = 1
          /\ Len(doc') = Len(doc) + 1
          /\ doc'[Len(doc')].label = "title"
          /\ doc'[Len(doc')].parent = None
          /\ parents'[1] = Len(doc')
          /\ \A k \in DOMAIN parents' : k >= 2 => parents'[k] = None
          /\ parents'[0] = parents[0]
          /\ content_layer' = BODY]_vars

\* C18: slot[0] denotes the document root in every state: no handler stores
\* a node in it.
C18_SlotZeroIsRoot ==
    pc \in {"walk", "done", "raised"} => parents[0] = None

\* C20: with level L >= 1, each slot[i] for 1 <= i <= L holds a node that
\* was made with the node of slot[i-1] as its parent (the root for i = 1).
C20_SlotChain ==
    (Between /\ level >= 1) =>
        \A i \in 1..level :
            /\ i \in DOMAIN parents /\ parents[i] # None
            /\ doc[parents[i]].parent = IF i = 1 THEN None ELSE parents[i - 1]


-----------------------------------------------------------------------------
(* Tables: the grid's indices and the cells' offsets.                      *)

\* C21: in the placement pass every read and write of the grid uses a row
\* index in [0, num_rows) and a column index in [0, num_cols), also for
\* tables that end with row-header rows or have no data row, so
\* parse_table_data never fails with an IndexError.
C21_GridIndicesInRange ==
    /\ exc # "IndexError"
    /\ (tpc = "cells" /\ ~SpansRaise(element[ri][ci]) /\ col_idx < num_cols) =>
          row_idx + start_row_span \in 0..(num_rows - 1)

\* C22: every TableCell emitted lies inside the reported grid: its row
\* offsets within [0, num_rows] and its column offsets within [0, num_cols].
C22_CellsInsideGrid ==
    \A i \in 1..Len(table_cells) :
        /\ 0 <= table_cells[i].start_row_offset_idx
        /\ table_cells[i].end_row_offset_idx <= num_rows
        /\ 0 <= table_cells[i].start_col_offset_idx
        /\ table_cells[i].end_col_offset_idx <= num_cols

=============================================================================
